---- MODULE Spec2Model ----
(***************************************************************************)
(* Model of the internship recommender: the resume-to-profile skill merge  *)
(* (recommender/views.py), the FAISS index lifecycle and the hybrid        *)
(* scoring of RecommenderService (recommender/services.py), and the        *)
(* offline build script (load_internships_faiss.py).                       *)
(*                                                                         *)
(* Strings are sequences of one-character strings, so that strip() and     *)
(* lower() are computed and not assumed.  Scores are exact rationals        *)
(* [n, d]; round(x, 4) yields an integer number of 1/10000 units.          *)
(***************************************************************************)
EXTENDS Integers, Sequences, FiniteSets, TLC

\* ------------------------------------------------------------------ bounds

\* Largest number of rows a catalog import creates.
MaxRows == 2
\* Largest number of vectors the index holds (build plus incremental adds).
MaxIndex == 3
\* Largest top_k of a direct find_matching_internships call.
MaxTopK == 3

\* Longest skill string of the normalize runs.
MaxStrLen == 2
\* Longest list of skills of the normalize runs.
MaxSkills == 2

\* top_k the three views pass to find_matching_internships.
ViewTopK == 10

\* ----------------------------------------------------------------- strings

Space == " "

\* str.lower() on one character of the model's alphabet.
LowerChar(c) ==
    CASE c = "A" -> "a"
      [] c = "B" -> "b"
      [] OTHER -> c

\* str.lower()
Lower(s) == [i \in 1..Len(s) |-> LowerChar(s[i])]

RECURSIVE LStrip(_)
LStrip(s) == IF s = <<>> \/ Head(s) # Space THEN s ELSE LStrip(Tail(s))

RECURSIVE RStrip(_)
RStrip(s) ==
    IF s = <<>> \/ s[Len(s)] # Space THEN s ELSE RStrip(SubSeq(s, 1, Len(s) - 1))

\* str.strip()
Strip(s) == LStrip(RStrip(s))

\* [f(x) for x in seq]
RECURSIVE MapStripLower(_)
MapStripLower(skills) ==
    IF skills = <<>> THEN <<>>
    ELSE <<Lower(Strip(Head(skills)))>> \o MapStripLower(Tail(skills))

\* The elements of a list, as a set: set(list)
ToSet(seq) == {seq[i] : i \in 1..Len(seq)}

\* x in list
In(x, seq) == \E i \in 1..Len(seq) : seq[i] = x

\* A normalize that strips and lowers every entry without the filter.
normalizeUnfiltered(skills) == MapStripLower(skills)

\* handle_resume_upload.normalize: strip and lower every non-blank entry.
normalize(skills) ==
    MapStripLower(SelectSeq(skills, LAMBDA skill : skill # <<>> /\ Strip(skill) # <<>>))

\* ---------------------------------------------------------------- rounding

\* Long division of r/D continued by n decimal digits: [q, r] with
\* q = floor(10^n * (q0 + r0/D)) and r the remainder left.
RECURSIVE Digits(_, _, _, _)
Digits(q, r, D, n) ==
    IF n = 0 THEN [q |-> q, r |-> r]
    ELSE Digits(q * 10 + ((r * 10) \div D), (r * 10) % D, D, n - 1)

\* round(N / D, 4) in units of 1/10000, ties to the even unit.
RoundUnits(N, D) ==
    LET qr == Digits(N \div D, N % D, D, 4)
    IN  IF 2 * qr.r > D THEN qr.q + 1
        ELSE IF 2 * qr.r < D THEN qr.q
        ELSE IF qr.q % 2 = 0 THEN qr.q ELSE qr.q + 1

Round4(x) == RoundUnits(x.n, x.d)

\* Exact comparison of two non-negative rationals.
RatLess(x, y) == x.n * y.d < y.n * x.d

\* ----------------------------------------------------------------- catalog

\* The catalog is a function from the ids of the existing Internship rows to
\* [title, skills_required, is_active]; Internship.objects.filter(id=i).first()
\* is None exactly when i is not in its domain.
Exists(cat, id) == id \in DOMAIN cat

\* doc.metadata.get("id") is None
NoIdIn(metadata) == "id" \notin DOMAIN metadata

\* ----------------------------------------------------------------- scoring

\* faiss_similarity = 1 / (1 + float(distance)), distance = n/d
FaissSimilarityBad(distance) == [n |-> distance.d, d |-> 2 * distance.d + distance.n]
FaissSimilarity(distance) == [n |-> distance.d, d |-> distance.d + distance.n]

\* internship_skills = [s.lower() for s in internship.skills_required]
InternshipSkills(skills_required) ==
    [i \in 1..Len(skills_required) |-> Lower(skills_required[i])]

\* resume_skills_lower = [s.lower().strip() for s in resume_skills]
ResumeSkillsLower(resume_skills) ==
    [i \in 1..Len(resume_skills) |-> Strip(Lower(resume_skills[i]))]

\* The skill_score of lines 251-256: matched / len(internship_skills) when the
\* internship has required skills, else 0.
SkillScore(skills_required, resume_skills_lower) ==
    IF skills_required # <<>>
    THEN LET internship_skills == InternshipSkills(skills_required)
             matched == Cardinality(ToSet(resume_skills_lower) \cap ToSet(internship_skills))
         IN  [n |-> matched, d |-> Len(internship_skills)]
    ELSE [n |-> 0, d |-> 1]

\* final_score = 0.8 * skill_score + 0.2 * faiss_similarity
FinalScoreBad(skill_score, faiss_similarity) ==
    [n |-> 1 * skill_score.n * faiss_similarity.d + 4 * faiss_similarity.n * skill_score.d,
     d |-> 5 * skill_score.d * faiss_similarity.d]
FinalScore(skill_score, faiss_similarity) ==
    [n |-> 4 * skill_score.n * faiss_similarity.d + 1 * faiss_similarity.n * skill_score.d,
     d |-> 5 * skill_score.d * faiss_similarity.d]

\* get_matching_skills: the skills found in and missing from the resume, each
\* in the order of the list given.
get_matching_skills(internship_skills_required, resume_skills) ==
    [matching |-> SelectSeq(internship_skills_required, LAMBDA skill : In(skill, resume_skills)),
     non_matching |-> SelectSeq(internship_skills_required, LAMBDA skill : ~In(skill, resume_skills))]

\* The local internship_skills before its first assignment.
Unbound == [bound |-> FALSE, val |-> <<>>]
Bound(v) == [bound |-> TRUE, val |-> v]

\* The loop of lines 237-273 from neighbour i on.  internship_skills is the
\* local of that name: it is assigned only when the internship has required
\* skills, and read by get_matching_skills for every internship; reading it
\* before any assignment raises UnboundLocalError.
RECURSIVE ScoreLoop(_, _, _, _, _, _)
ScoreLoop(cat, results, resume_skills_lower, i, matches, internship_skills) ==
    IF i > Len(results) THEN [raised |-> "none", matches |-> matches]
    ELSE
      LET doc == results[i]
      IN  IF NoIdIn(doc.metadata)
          THEN ScoreLoop(cat, results, resume_skills_lower, i + 1, matches, internship_skills)
          ELSE IF ~Exists(cat, doc.metadata.id)
          THEN ScoreLoop(cat, results, resume_skills_lower, i + 1, matches, internship_skills)
          ELSE
            LET internship == cat[doc.metadata.id]
                faiss_similarity == FaissSimilarity(doc.distance)
                skill_score == SkillScore(internship.skills_required, resume_skills_lower)
                skills_now == IF internship.skills_required # <<>>
                              THEN Bound(InternshipSkills(internship.skills_required))
                              ELSE internship_skills
                final_score == FinalScore(skill_score, faiss_similarity)
            IN  IF ~skills_now.bound
                THEN [raised |-> "UnboundLocalError", matches |-> <<>>]
                ELSE
                  LET part == get_matching_skills(skills_now.val, resume_skills_lower)
                      match == [id |-> doc.metadata.id,
                                title |-> doc.metadata.title,
                                faiss_score |-> Round4(faiss_similarity),
                                skill_score |-> Round4(skill_score),
                                final_score |-> Round4(final_score),
                                matching_skills |-> part.matching,
                                non_matching_skills |-> part.non_matching,
                                matching_skills_count |-> Len(part.matching),
                                total_skills_count |-> Len(part.non_matching) + Len(part.matching)]
                  IN  ScoreLoop(cat, results, resume_skills_lower, i + 1,
                                Append(matches, match), skills_now)

\* Insert x behind every entry whose final_score is at least x's.
RECURSIVE InsertDesc(_, _)
InsertDesc(sorted, x) ==
    IF sorted = <<>> THEN <<x>>
    ELSE IF Head(sorted).final_score >= x.final_score
         THEN <<Head(sorted)>> \o InsertDesc(Tail(sorted), x)
         ELSE <<x>> \o sorted

RECURSIVE SortFrom(_, _)
SortFrom(sorted, rest) ==
    IF rest = <<>> THEN sorted ELSE SortFrom(InsertDesc(sorted, Head(rest)), Tail(rest))

\* An ascending sort reversed: descending, but equal scores come out in
\* reverse traversal order.
RECURSIVE InsertDescFirst(_, _)
InsertDescFirst(sorted, x) ==
    IF sorted = <<>> THEN <<x>>
    ELSE IF Head(sorted).final_score > x.final_score
         THEN <<Head(sorted)>> \o InsertDescFirst(Tail(sorted), x)
         ELSE <<x>> \o sorted

RECURSIVE SortFromFirst(_, _)
SortFromFirst(sorted, rest) ==
    IF rest = <<>> THEN sorted
    ELSE SortFromFirst(InsertDescFirst(sorted, Head(rest)), Tail(rest))

SortMatchesReversed(matches) == SortFromFirst(<<>>, matches)

\* matches.sort(key=lambda x: x["final_score"], reverse=True): list.sort is
\* stable, and reverse=True keeps the order of entries of equal key.
SortMatches(matches) == SortFrom(<<>>, matches)

\* matches[:top_k]
Slice(matches, top_k) ==
    SubSeq(matches, 1, IF Len(matches) < top_k THEN Len(matches) ELSE top_k)

\* find_matching_internships after the index has been loaded: score the
\* neighbours the index returned, sort, cut.  scored is the list as it was
\* before the sort.
ScoreAndRank(cat, results, resume_skills, top_k) ==
    LET run == ScoreLoop(cat, results, ResumeSkillsLower(resume_skills), 1, <<>>, Unbound)
    IN  IF run.raised # "none"
        THEN [raised |-> run.raised, matches |-> <<>>, scored |-> <<>>]
        ELSE [raised |-> "none",
              matches |-> Slice(SortMatches(run.matches), top_k),
              scored |-> run.matches]

\* ------------------------------------------------------------------- state

VARIABLES
    catalog,        \* Internship table: id -> [title, skills_required, is_active]
    disk,           \* vector_db/faiss_index: [exists, docs]
    vector_store,   \* recommender.vector_store: [loaded, docs]; not loaded is None
    parsed_skills,  \* UserProfile.parsed_skills of the one user
    vector_summary, \* UserProfile.vector_summary: the list of its parts, "" is <<>>
    call,           \* the find_matching_internships call of the last request, if any
    response,       \* what the last request handler or script answered
    load_failed,    \* whether a load of the index has failed in this process
    norm,           \* a list of skills, and normalize applied to it once and twice
    expected,       \* the docs of the last build followed by the docs added since
    files,          \* index.faiss and index.pkl of vector_db/faiss_index, one by one
    pc,             \* where each concurrent thread or script stands
    local,          \* the locals of each concurrent thread or script
    loads           \* how many times FAISS.load_local has run in the service

vars == <<catalog, disk, vector_store, parsed_skills, vector_summary, call, response,
          load_failed, norm, expected, files, pc, local, loads>>

\* The variables of the normalize runs, of the build history and of the
\* concurrent runs, where they play no part.
NoNorm == [input |-> <<>>, first |-> <<>>, second |-> <<>>, applied |-> 0]
NoExpected == [built |-> FALSE, docs |-> <<>>]
NoFile == [exists |-> FALSE, docs |-> <<>>]
NoFiles == [faiss |-> NoFile, pkl |-> NoFile]

SequentialInit ==
    /\ files = NoFiles
    /\ pc = <<>>
    /\ local = <<>>
    /\ loads = 0

\* What the sequential runs leave alone: the normalize runs' record and the
\* state of the concurrent runs.
Threads == <<norm, expected, files, pc, local, loads>>

\* A distance n/d as the index reports it.
Dist(n, d) == [n |-> n, d |-> d]

\* Distances the index reports in the scoring runs: 0, 0.00005, 1, 3, 20001.
Distances == {Dist(0, 1), Dist(1, 20000), Dist(1, 1), Dist(3, 1), Dist(20001, 1)}

\* Distances the index reports to the views.
ViewDistances == {Dist(0, 1), Dist(3, 1)}

Min(a, b) == IF a < b THEN a ELSE b

\* The sequences of m different positions of 1..n.
Picks(m, n) == {p \in [1..m -> 1..n] : \A i, j \in 1..m : i # j => p[i] # p[j]}

\* The ascending sequences of m distances of D.
Ascending(m, D) ==
    {ds \in [1..m -> D] : \A i \in 1..m : \A j \in 1..m : i < j => ~RatLess(ds[j], ds[i])}

\* vector_store.similarity_search_with_score(query, k): the min(k, ntotal)
\* nearest documents with their distances, nearest first.  Which documents are
\* nearest is the embedding's business: every choice is possible.
similarity_search_with_score(docs, k, D) ==
    LET m == Min(k, Len(docs))
    IN  {[i \in 1..m |-> [metadata |-> docs[p[i]].metadata, distance |-> ds[i]]] :
            p \in Picks(m, Len(docs)), ds \in Ascending(m, D)}

NoCall ==
    [results |-> <<>>, resume_skills |-> <<>>, top_k |-> 0,
     raised |-> "nocall", matches |-> <<>>, scored |-> <<>>]

\* A response: the view or script that answered; how it ended ("render",
\* "redirect", "error500" for an exception no handler caught, "ok", "exit1");
\* the message or exception; and what the templates are given.  structured and
\* structured_skills are what clean_resume_text returned to an upload, saved
\* whether the upload reached profile.save() of line 119.
Response(view, status, notice) ==
    [view |-> view, status |-> status, notice |-> notice,
     items |-> <<>>, match_score |-> <<>>,
     matching_skills |-> <<>>, non_matching_skills |-> <<>>,
     structured |-> "none", structured_skills |-> <<>>, saved |-> FALSE]

NoResponse == Response("none", "none", "none")

\* A loader that creates an empty index when none is persisted.
LoadOrCreateEmpty(store, dsk) ==
    IF store.loaded THEN [raised |-> "none", store |-> store]
    ELSE IF ~dsk.exists THEN [raised |-> "none", store |-> [loaded |-> TRUE, docs |-> <<>>]]
    ELSE [raised |-> "none", store |-> [loaded |-> TRUE, docs |-> dsk.docs]]

\* load_or_create_vector_store: the handle if there is one, else the persisted
\* index, else RuntimeError; a failed load leaves the handle unset.
load_or_create_vector_store(store, dsk) ==
    IF store.loaded THEN [raised |-> "none", store |-> store]
    ELSE IF ~dsk.exists THEN [raised |-> "RuntimeError", store |-> store]
    ELSE [raised |-> "none", store |-> [loaded |-> TRUE, docs |-> dsk.docs]]

\* find_matching_internships(vector_summary, resume_skills, top_k) in the
\* state (store, dsk, cat): every [store, call] it can end in, one per answer
\* of the index.
find_matching_internships(store, dsk, cat, resume_skills, top_k, D) ==
    LET load == load_or_create_vector_store(store, dsk)
    IN  IF load.raised # "none"
        THEN {[store |-> load.store,
               call |-> [results |-> <<>>, resume_skills |-> resume_skills, top_k |-> top_k,
                         raised |-> load.raised, matches |-> <<>>, scored |-> <<>>]]}
        ELSE {[store |-> load.store,
               call |-> LET out == ScoreAndRank(cat, results, resume_skills, top_k)
                        IN  [results |-> results, resume_skills |-> resume_skills,
                             top_k |-> top_k, raised |-> out.raised,
                             matches |-> out.matches, scored |-> out.scored]] :
                results \in similarity_search_with_score(load.store.docs, top_k, D)}

\* -------------------------------------------------- the scoring runs (SpecMatch)

Row(skills, active) == [title |-> "T", skills_required |-> skills, is_active |-> active]

\* A document as the build script and add_internships_to_vector_store store it.
Doc(id, title) == [metadata |-> [id |-> id, title |-> title]]

\* A document whose metadata carries no id.
DocWithoutId == [metadata |-> [title |-> "T"]]

\* Catalog of the scoring runs: one required skill, none, two in mixed case on
\* an inactive row, a duplicated skill, a skill with surrounding whitespace.
MatchCatalog ==
    [id \in 1..5 |->
        CASE id = 1 -> Row(<< <<"a">> >>, TRUE)
          [] id = 2 -> Row(<<>>, TRUE)
          [] id = 3 -> Row(<< <<"A">>, <<"b">> >>, FALSE)
          [] id = 4 -> Row(<< <<"a">>, <<"a">> >>, TRUE)
          [] OTHER -> Row(<< <<" ", "a">> >>, TRUE)]

\* Its index: a document per row, one of a row deleted since (id 6), one
\* without an id.
MatchIndex ==
    <<Doc(1, "T"), Doc(2, "T"), Doc(3, "T"), Doc(4, "T"), Doc(5, "T"), Doc(6, "T"),
      DocWithoutId>>

\* The resume_skills of the scoring runs.
ResumeSkillLists ==
    {<<>>, << <<"a">> >>, << <<"b">> >>, << <<"A">>, <<" ", "b">> >>}

MatchInit ==
    /\ catalog = MatchCatalog
    /\ disk = [exists |-> TRUE, docs |-> MatchIndex]
    /\ vector_store = [loaded |-> FALSE, docs |-> <<>>]
    /\ parsed_skills = <<>>
    /\ vector_summary = <<>>
    /\ call = NoCall
    /\ response = NoResponse
    /\ load_failed = FALSE
    /\ norm = NoNorm
    /\ expected = NoExpected
    /\ SequentialInit

\* recommender.find_matching_internships(summary, resume_skills, top_k)
FindMatches ==
    \E top_k \in 1..MaxTopK, resume_skills \in ResumeSkillLists :
        \E out \in find_matching_internships(vector_store, disk, catalog, resume_skills,
                                             top_k, Distances) :
            /\ vector_store' = out.store
            /\ call' = out.call
            /\ load_failed' = (load_failed \/ out.call.raised = "RuntimeError")
            /\ UNCHANGED <<catalog, disk, parsed_skills, vector_summary, response>>

\* Each scoring run is one call on the freshly constructed service.
MatchNext ==
    /\ call = NoCall /\ FindMatches
    /\ UNCHANGED Threads

SpecMatch == MatchInit /\ [][MatchNext]_vars

\* ------------------------------------------------- properties of the scoring

\* The last call returned a list.
Returned == call.raised = "none"

\* The neighbours of the last call that the loop does not skip.
Kept == SelectSeq(call.results,
                  LAMBDA r : ~NoIdIn(r.metadata) /\ Exists(catalog, r.metadata.id))

Units == 10000

\* C2: the list find_matching_internships returns has at most top_k entries,
\* is in non-increasing order of final_score, and entries of equal final_score
\* stand in the order in which the index returned them (the sort is stable on
\* the traversal order).
C2_RankedStable ==
    Returned =>
        /\ Len(call.matches) <= call.top_k
        /\ \A i \in 1..Len(call.matches) : \A j \in 1..Len(call.matches) :
              i < j => call.matches[i].final_score >= call.matches[j].final_score
        /\ \E pos \in [1..Len(call.matches) -> 1..Len(call.scored)] :
              /\ \A i \in 1..Len(call.matches) : call.matches[i] = call.scored[pos[i]]
              /\ \A i \in 1..Len(call.matches) : \A j \in 1..Len(call.matches) :
                    i < j =>
                      /\ pos[i] # pos[j]
                      /\ call.matches[i].final_score = call.matches[j].final_score
                            => pos[i] < pos[j]

\* C2 witness: a call with top_k = 3 returned three different internships, the
\* sort moved the first neighbour behind the other two, and those two tie.
C2_Witness ==
    /\ Returned
    /\ call.top_k = 3
    /\ Len(call.matches) = 3
    /\ call.matches[1].final_score = call.matches[2].final_score
    /\ call.matches[2].final_score > call.matches[3].final_score
    /\ call.matches[1].id # call.matches[2].id
    /\ call.matches[3] = call.scored[1]
    /\ call.matches[3] # call.matches[1]

\* C3 as claimed: the skill_score of every returned match is in [0,1], is 0
\* when the internship requires no skill, and is 1 when the candidate's
\* normalized skill set contains the internship's normalized skill set.
C3_SkillScoreAsClaimed ==
    Returned =>
        \A i \in 1..Len(call.matches) :
            LET m == call.matches[i]
                required == catalog[m.id].skills_required
                need == ToSet(normalize(required))
                have == ToSet(normalize(call.resume_skills))
            IN  /\ m.skill_score \in 0..Units
                /\ required = <<>> => m.skill_score = 0
                /\ (required # <<>> /\ need \subseteq have) => m.skill_score = Units

\* C4 as claimed: matching_skills and non_matching_skills of every returned
\* match are the (case-folded) required skills of that match's own internship
\* that the candidate has and has not, in the internship's order; an
\* internship without required skills has both lists empty.
C4_PartitionAsClaimed ==
    Returned =>
        \A i \in 1..Len(call.matches) :
            LET m == call.matches[i]
                required == InternshipSkills(catalog[m.id].skills_required)
                have == ResumeSkillsLower(call.resume_skills)
            IN  /\ m.matching_skills = SelectSeq(required, LAMBDA x : In(x, have))
                /\ m.non_matching_skills = SelectSeq(required, LAMBDA x : ~In(x, have))

Abs(x) == IF x < 0 THEN -x ELSE x

\* C5: every returned match has final_score = 0.8 * skill_score + 0.2 *
\* faiss_score to within one unit of the fourth decimal the three fields are
\* rounded to, and skill_score 0.5 with faiss_score 0.25 gives exactly 0.45.
C5_FinalScoreWeights ==
    Returned =>
        \A i \in 1..Len(call.matches) :
            LET m == call.matches[i]
            IN  /\ Abs(10 * m.final_score - (8 * m.skill_score + 2 * m.faiss_score)) <= 10
                /\ (m.skill_score = 5000 /\ m.faiss_score = 2500) => m.final_score = 4500

\* C5 witness: a returned match with skill_score 0.5 and faiss_score 0.25.
C5_Witness ==
    /\ Returned
    /\ \E i \in 1..Len(call.matches) :
          /\ call.matches[i].skill_score = 5000
          /\ call.matches[i].faiss_score = 2500
          /\ call.matches[i].final_score = 4500

Stale == SelectSeq(call.results,
                   LAMBDA r : NoIdIn(r.metadata) \/ ~Exists(catalog, r.metadata.id))

\* C16 as claimed: a call whose neighbours include stale ones returns, with a
\* match for every other neighbour and for no stale one, so with as many
\* matches as neighbours less the stale ones.
C16_StaleSkippedAsClaimed ==
    (call.raised \notin {"nocall", "RuntimeError"} /\ Stale # <<>>) =>
        /\ Returned
        /\ Len(call.matches) = Len(call.results) - Len(Stale)
        /\ {call.matches[i].id : i \in 1..Len(call.matches)}
              = {Kept[i].metadata.id : i \in 1..Len(Kept)}

\* --------------------------------------------------- the request handlers (Spec)

\* The loop of lines 111-113 of handle_resume_upload: append every extracted
\* skill that the list does not hold yet.
RECURSIVE MergeAppendAll(_, _)
MergeAppendAll(updated_skills, extracted_skills) ==
    IF extracted_skills = <<>> THEN updated_skills
    ELSE MergeAppendAll(Append(updated_skills, Head(extracted_skills)), Tail(extracted_skills))

MergeReplace(updated_skills, extracted_skills) == extracted_skills

RECURSIVE MergeLoop(_, _)
MergeLoop(updated_skills, extracted_skills) ==
    IF extracted_skills = <<>> THEN updated_skills
    ELSE LET skill == Head(extracted_skills)
         IN  MergeLoop(IF ~In(skill, updated_skills)
                       THEN Append(updated_skills, skill)
                       ELSE updated_skills,
                       Tail(extracted_skills))

MergeSkills(existing_skills, extracted_skills) == MergeLoop(existing_skills, extracted_skills)

\* create_vector_summary: the labels of the parts it joins, a part for every
\* non-empty section; the empty string is <<>>.  The experience, projects and
\* education sections are left out of the structured data of the model.
create_vector_summary(data) ==
    (IF data.summary # "" THEN <<"Summary">> ELSE <<>>)
        \o (IF data.skills # <<>> THEN <<"Skills">> ELSE <<>>)

\* What clean_resume_text returns when the model answers: the skills as
\* extracted (mixed case, surrounding blanks, repeats, blank entries) and a
\* bio or none.
ExtractedSkillLists ==
    {<<>>,
     << <<" ", "A">> >>,
     << <<"b">>, <<"A">>, <<"b", " ">> >>,
     << <<" ">>, <<>>, <<"B">> >>}

LlmStructures ==
    {[skills |-> sk, summary |-> su] : sk \in ExtractedSkillLists, su \in {"", "bio"}}

\* The fallback of clean_resume_text when the chain raises: no skills, and the
\* raw text (or "Unable to parse resume") as the summary.
FallbackStructure == [skills |-> <<>>, summary |-> "raw text"]

\* top_k of the three views.
Recommend(store, dsk, cat, skills) ==
    find_matching_internships(store, dsk, cat, skills, ViewTopK, ViewDistances)

\* match_percentage = round(final_score * 100, 2), in units of 0.01 percent
MatchPercentage(final_score) == final_score

\* The recommended_internships of handle_resume_upload (lines 123-138): one per
\* match whose row Internship.objects.get(id=...) finds.
UploadItems(cat, matches) ==
    LET found == SelectSeq(matches, LAMBDA item : Exists(cat, item.id))
    IN  [i \in 1..Len(found) |->
            [id |-> found[i].id,
             is_active |-> cat[found[i].id].is_active,
             final_score |-> found[i].final_score,
             match_percentage |-> MatchPercentage(found[i].final_score)]]

\* The recommended_internships of dashboard (lines 165-179): one per match
\* whose row Internship.objects.get(id=..., is_active=True) finds.
DashboardItems(cat, matches) ==
    LET found == SelectSeq(matches,
                           LAMBDA item : Exists(cat, item.id) /\ cat[item.id].is_active)
    IN  [i \in 1..Len(found) |->
            [id |-> found[i].id,
             is_active |-> cat[found[i].id].is_active,
             final_score |-> found[i].final_score,
             match_percentage |-> MatchPercentage(found[i].final_score)]]

\* handle_resume_upload, POST without a file or with a file that is no .pdf.
UploadRejected ==
    /\ response' = Response("upload", "redirect", "error")
    /\ call' = NoCall
    /\ UNCHANGED <<catalog, disk, vector_store, parsed_skills, vector_summary, load_failed>>

\* handle_resume_upload when extract_text_from_pdf raises, or when the
\* structured data makes normalize or create_vector_summary raise: the except
\* clause of line 151 answers, and nothing of lines 115-119 is saved.
UploadAborted ==
    /\ response' = Response("upload", "redirect", "error")
    /\ call' = NoCall
    /\ UNCHANGED <<catalog, disk, vector_store, parsed_skills, vector_summary, load_failed>>

\* handle_resume_upload from line 97 on, with the structured data that
\* clean_resume_text returned.
UploadStructured(kind, structured_data) ==
    LET extracted_skills == normalize(structured_data.skills)
        existing_skills == normalize(parsed_skills)
        updated_skills == MergeSkills(existing_skills, extracted_skills)
    IN  /\ parsed_skills' = updated_skills
        /\ vector_summary' = create_vector_summary(structured_data)
        /\ \E out \in Recommend(vector_store, disk, catalog, updated_skills) :
              /\ vector_store' = out.store
              /\ call' = out.call
              /\ load_failed' = (load_failed \/ out.call.raised = "RuntimeError")
              /\ response' =
                    IF out.call.raised # "none"
                    THEN [Response("upload", "redirect", "error") EXCEPT
                            !.structured = kind,
                            !.structured_skills = structured_data.skills,
                            !.saved = TRUE]
                    ELSE [Response("upload", "render", "success") EXCEPT
                            !.items = UploadItems(catalog, out.call.matches),
                            !.structured = kind,
                            !.structured_skills = structured_data.skills,
                            !.saved = TRUE]
        /\ UNCHANGED <<catalog, disk>>

UploadParsed == \E structured_data \in LlmStructures : UploadStructured("llm", structured_data)

UploadFallback == UploadStructured("fallback", FallbackStructure)

\* The comma-separated skills field of edit_skills, split at the commas.
EditInputs ==
    {<< <<>> >>,
     << <<"a">> >>,
     << <<" ", "B">>, <<"b">>, <<" ">> >>}

\* edit_skills, POST: the profile's skills become the non-blank pieces,
\* stripped and lower-cased.
EditSkills ==
    \E pieces \in EditInputs :
        /\ parsed_skills' =
              LET kept == SelectSeq(pieces, LAMBDA skill : Strip(skill) # <<>>)
              IN  [i \in 1..Len(kept) |-> Lower(Strip(kept[i]))]
        /\ response' = Response("edit_skills", "redirect", "success")
        /\ call' = NoCall
        /\ UNCHANGED <<catalog, disk, vector_store, vector_summary, load_failed>>

\* dashboard
Dashboard ==
    /\ IF vector_summary # <<>>
       THEN \E out \in Recommend(vector_store, disk, catalog, parsed_skills) :
              /\ vector_store' = out.store
              /\ call' = out.call
              /\ load_failed' = (load_failed \/ out.call.raised = "RuntimeError")
              /\ response' =
                    IF out.call.raised # "none"
                    THEN Response("dashboard", "error500", out.call.raised)
                    ELSE [Response("dashboard", "render", "none") EXCEPT
                            !.items = DashboardItems(catalog, out.call.matches)]
       ELSE /\ response' = Response("dashboard", "render", "none")
            /\ call' = NoCall
            /\ UNCHANGED <<vector_store, load_failed>>
    /\ UNCHANGED <<catalog, disk, parsed_skills, vector_summary>>

\* The index of the first match with the id asked for, 0 if there is none:
\* where the loop of lines 259-264 breaks.
RECURSIVE FirstWithId(_, _, _)
FirstWithId(matches, internship_id, i) ==
    IF i > Len(matches) THEN 0
    ELSE IF matches[i].id = internship_id THEN i
    ELSE FirstWithId(matches, internship_id, i + 1)

\* internship_detail after its call of find_matching_internships returned
\* matches (<<>> also when it made no call).  The context of
\* lines 266-271 reads the loop variable item: the match the loop broke at,
\* else the last match; with no match at all item was never bound and the read
\* raises NameError.
DetailResponse(matches, internship_id) ==
    LET hit == FirstWithId(matches, internship_id, 1)
    IN  IF matches = <<>>
        THEN Response("internship_detail", "error500", "NameError")
        ELSE LET item == IF hit # 0 THEN matches[hit] ELSE matches[Len(matches)]
             IN  [Response("internship_detail", "render", "none") EXCEPT
                    !.match_score = IF hit # 0
                                    THEN <<MatchPercentage(matches[hit].final_score)>>
                                    ELSE <<>>,
                    !.items = <<[id |-> internship_id]>>,
                    !.matching_skills = item.matching_skills,
                    !.non_matching_skills = item.non_matching_skills]

\* The ids a request may ask internship_detail for.
DetailIds == 1..3

\* internship_detail
InternshipDetail ==
    \E internship_id \in DetailIds :
        /\ IF ~(Exists(catalog, internship_id) /\ catalog[internship_id].is_active)
           THEN /\ response' = Response("internship_detail", "redirect", "Internship not found")
                /\ call' = NoCall
                /\ UNCHANGED <<vector_store, load_failed>>
           ELSE IF vector_summary # <<>>
           THEN \E out \in Recommend(vector_store, disk, catalog, parsed_skills) :
                  /\ vector_store' = out.store
                  /\ call' = out.call
                  /\ load_failed' = (load_failed \/ out.call.raised = "RuntimeError")
                  /\ response' =
                        IF out.call.raised # "none"
                        THEN Response("internship_detail", "error500", out.call.raised)
                        ELSE DetailResponse(out.call.matches, internship_id)
           ELSE /\ response' = DetailResponse(<<>>, internship_id)
                /\ call' = NoCall
                /\ UNCHANGED <<vector_store, load_failed>>
        /\ UNCHANGED <<catalog, disk, parsed_skills, vector_summary>>

\* The rows of the deployments the requests run against.
TwoRows ==
    [id \in 1..2 |-> IF id = 1 THEN Row(<< <<"a">> >>, TRUE)
                     ELSE Row(<< <<"A">>, <<"b">> >>, FALSE)]

OneRow == [id \in 1..1 |-> Row(<<>>, TRUE)]

\* The deployments: two rows, the second deactivated, before the build script
\* has run; the same with the index built; and that index with the catalog
\* imported again since, now one row without required skills.
Deployments ==
    {[catalog |-> TwoRows, disk |-> [exists |-> FALSE, docs |-> <<>>]],
     [catalog |-> TwoRows, disk |-> [exists |-> TRUE, docs |-> <<Doc(1, "T"), Doc(2, "T")>>]],
     [catalog |-> OneRow, disk |-> [exists |-> TRUE, docs |-> <<Doc(1, "T"), Doc(2, "T")>>]]}

Init ==
    /\ \E dep \in Deployments :
          /\ catalog = dep.catalog
          /\ disk = dep.disk
    /\ vector_store = [loaded |-> FALSE, docs |-> <<>>]
    /\ parsed_skills = <<>>
    /\ vector_summary = <<>>
    /\ call = NoCall
    /\ response = NoResponse
    /\ load_failed = FALSE
    /\ norm = NoNorm
    /\ expected = NoExpected
    /\ SequentialInit

Next ==
    \/ UploadRejected /\ UNCHANGED Threads
    \/ UploadAborted /\ UNCHANGED Threads
    \/ UploadParsed /\ UNCHANGED Threads
    \/ UploadFallback /\ UNCHANGED Threads
    \/ EditSkills /\ UNCHANGED Threads
    \/ Dashboard /\ UNCHANGED Threads
    \/ InternshipDetail /\ UNCHANGED Threads

Spec == Init /\ [][Next]_vars

\* ----------------------------------------------- properties of the requests

\* C1 as claimed: no match find_matching_internships returns, and no
\* internship the upload results or the dashboard show, is a catalog row with
\* is_active = False.
C1_NoInactiveAsClaimed ==
    /\ Returned =>
          \A i \in 1..Len(call.matches) : catalog[call.matches[i].id].is_active
    /\ response.view \in {"upload", "dashboard"} =>
          \A i \in 1..Len(response.items) : response.items[i].is_active

\* The list without the repeats of an entry after its first occurrence.
RECURSIVE FirstOccurrences(_)
FirstOccurrences(seq) ==
    IF seq = <<>> THEN <<>>
    ELSE LET front == FirstOccurrences(SubSeq(seq, 1, Len(seq) - 1))
             last == seq[Len(seq)]
         IN  IF In(last, front) THEN front ELSE Append(front, last)

\* An upload that reached profile.save() of line 119 has just answered.
UploadSaved == response.view = "upload" /\ response.saved

\* C7: an upload that saves leaves the stored skills as the existing list,
\* kept as a prefix, followed by the normalized extracted skills the list did
\* not hold, each once and in extraction order; when the list already holds
\* every extracted skill (as after merging the same skills before) it is left
\* as it was.
C7_MergeLeftBiased ==
    [][UploadSaved' =>
          LET extracted == normalize(response'.structured_skills)
              fresh == SelectSeq(extracted, LAMBDA x : ~In(x, parsed_skills))
          IN  /\ parsed_skills' = parsed_skills \o FirstOccurrences(fresh)
              /\ ToSet(parsed_skills') = ToSet(parsed_skills) \cup ToSet(extracted)
              /\ ToSet(extracted) \subseteq ToSet(parsed_skills)
                    => parsed_skills' = parsed_skills]_vars

\* C7 witness: the upload of the skills "b", "A", "b " has left a profile that
\* held "a" with the list "a", "b".
C7_Witness ==
    /\ UploadSaved
    /\ response.structured_skills = << <<"b">>, <<"A">>, <<"b", " ">> >>
    /\ parsed_skills = << <<"a">>, <<"b">> >>

\* C8: every step other than edit_skills, whatever way an upload ends, keeps
\* every normalized skill of the profile.
C8_SkillsOnlyGrow ==
    [][response'.view # "edit_skills" =>
          ToSet(normalize(parsed_skills)) \subseteq ToSet(parsed_skills')]_vars

\* C8 witness: an upload that fell back to the structure without skills has
\* answered, and the profile still holds two skills.
C8_Witness ==
    /\ UploadSaved
    /\ response.structured = "fallback"
    /\ Len(parsed_skills) = 2

\* C9 as claimed: a request whose find_matching_internships raised for the
\* missing index does not end in an unhandled exception.
C9_NoCrashAsClaimed ==
    call.raised = "RuntimeError" => response.status # "error500"

\* C17 as claimed: internship_detail never ends in an unhandled exception, and
\* the page it renders carries the matching_skills and non_matching_skills of
\* the match with the requested id, or two empty lists and no match_score
\* when no match has that id.
C17_DetailAsClaimed ==
    response.view = "internship_detail" =>
        /\ response.status # "error500"
        /\ response.status = "render" =>
              LET internship_id == response.items[1].id
                  matches == IF Returned THEN call.matches ELSE <<>>
                  hit == FirstWithId(matches, internship_id, 1)
              IN  IF hit # 0
                  THEN /\ response.matching_skills = matches[hit].matching_skills
                       /\ response.non_matching_skills = matches[hit].non_matching_skills
                  ELSE /\ response.matching_skills = <<>>
                       /\ response.non_matching_skills = <<>>
                       /\ response.match_score = <<>>

\* ------------------------------------------------ the index lifecycle (SpecIndex)

\* The skills_required a catalog import gives a row.
CsvSkillLists == {<<>>, << <<"a">> >>, << <<"A">>, <<"b">> >>}

\* load_internships.py: delete every row and the id sequence, then create a
\* row per line of the file, ids from 1, is_active at its default.
ImportCatalog ==
    \E n \in 0..MaxRows :
        \E skills \in [1..n -> CsvSkillLists] :
            /\ catalog' = [id \in 1..n |-> Row(skills[id], TRUE)]
            /\ response' = Response("load_internships", "ok", "none")
            /\ call' = NoCall
            /\ UNCHANGED <<disk, vector_store, parsed_skills, vector_summary, load_failed>>

\* A row's is_active is cleared (the catalog's own maintenance, outside the
\* views).
Deactivate ==
    \E id \in DOMAIN catalog :
        /\ catalog[id].is_active
        /\ catalog' = [catalog EXCEPT ![id].is_active = FALSE]
        /\ response' = Response("admin", "ok", "none")
        /\ call' = NoCall
        /\ UNCHANGED <<disk, vector_store, parsed_skills, vector_summary, load_failed>>

\* The docs of the build script (lines 31-61): one per row of
\* Internship.objects.all().order_by("id").
RECURSIVE BuildDocs(_, _)
BuildDocs(cat, id) ==
    IF id \notin DOMAIN cat THEN <<>>
    ELSE <<Doc(id, cat[id].title)>> \o BuildDocs(cat, id + 1)

\* A build that keeps the old index and appends to it.
BuiltDiskMerged(docs, dsk) ==
    IF docs = <<>> THEN dsk ELSE [exists |-> TRUE, docs |-> dsk.docs \o docs]

\* Lines 67-77 of the build script: with no docs exit(1) before anything is
\* removed; else remove the old index and save the new one.
BuiltDisk(docs, dsk) ==
    IF docs = <<>> THEN dsk ELSE [exists |-> TRUE, docs |-> docs]

\* load_internships_faiss.py, run in a process of its own: the service's
\* handle is not touched.
BuildIndex ==
    LET docs == BuildDocs(catalog, 1)
    IN  /\ disk' = BuiltDisk(docs, disk)
        /\ response' = IF docs = <<>> THEN Response("build", "exit1", "No documents found")
                       ELSE Response("build", "ok", "none")
        /\ call' = NoCall
        /\ UNCHANGED <<catalog, vector_store, parsed_skills, vector_summary, load_failed>>

\* recommender.load_or_create_vector_store()
LoadStore ==
    LET load == load_or_create_vector_store(vector_store, disk)
    IN  /\ vector_store' = load.store
        /\ load_failed' = (load_failed \/ load.raised # "none")
        /\ response' = IF load.raised # "none" THEN Response("load", load.raised, "FAISS index not found")
                       ELSE Response("load", "ok", "none")
        /\ call' = NoCall
        /\ UNCHANGED <<catalog, disk, parsed_skills, vector_summary>>

\* The ascending lists of ids of a set: a queryset of rows.
RECURSIVE IdList(_)
IdList(ids) ==
    IF ids = {} THEN <<>>
    ELSE LET least == CHOOSE x \in ids : \A y \in ids : x <= y
         IN  <<least>> \o IdList(ids \ {least})

\* recommender.add_internships_to_vector_store(internships): load, then
\* append a document per internship and save the handle's index; nothing is
\* written for an empty list.
AddInternships ==
    \E ids \in SUBSET DOMAIN catalog :
        LET load == load_or_create_vector_store(vector_store, disk)
            internships == IdList(ids)
            documents == [i \in 1..Len(internships) |->
                             Doc(internships[i], catalog[internships[i]].title)]
        IN  /\ Len(load.store.docs) + Len(documents) <= MaxIndex
            /\ load_failed' = (load_failed \/ load.raised # "none")
            /\ IF load.raised # "none"
               THEN /\ response' = Response("add", load.raised, "FAISS index not found")
                    /\ UNCHANGED <<vector_store, disk>>
               ELSE IF documents # <<>>
               THEN /\ vector_store' = [load.store EXCEPT !.docs = load.store.docs \o documents]
                    /\ disk' = [exists |-> TRUE, docs |-> load.store.docs \o documents]
                    /\ response' = Response("add", "ok", "none")
               ELSE /\ vector_store' = load.store
                    /\ response' = Response("add", "ok", "none")
                    /\ UNCHANGED disk
            /\ call' = NoCall
            /\ UNCHANGED <<catalog, parsed_skills, vector_summary>>

IndexInit ==
    /\ catalog = <<>>
    /\ disk = [exists |-> FALSE, docs |-> <<>>]
    /\ vector_store = [loaded |-> FALSE, docs |-> <<>>]
    /\ parsed_skills = <<>>
    /\ vector_summary = <<>>
    /\ call = NoCall
    /\ response = NoResponse
    /\ load_failed = FALSE
    /\ norm = NoNorm
    /\ expected = NoExpected
    /\ SequentialInit

IndexNext ==
    \/ ImportCatalog /\ UNCHANGED Threads
    \/ Deactivate /\ UNCHANGED Threads
    \/ BuildIndex /\ UNCHANGED Threads
    \/ LoadStore /\ UNCHANGED Threads
    \/ AddInternships /\ UNCHANGED Threads

SpecIndex == IndexInit /\ [][IndexNext]_vars

IsPrefix(s, t) == Len(s) <= Len(t) /\ SubSeq(t, 1, Len(s)) = s

\* C14 as claimed: a build leaves exactly its docs persisted, an add that
\* writes leaves the persisted docs followed by more, and a handle that is set
\* holds the docs that are persisted.
C14_BuildPlusAddsAsClaimed ==
    [][/\ (response'.view = "build" /\ response'.status = "ok")
             => disk'.docs = BuildDocs(catalog, 1)
       /\ (response'.view = "add" /\ disk' # disk)
             => (IsPrefix(disk.docs, disk'.docs) /\ Len(disk'.docs) > Len(disk.docs))
       /\ vector_store'.loaded => vector_store'.docs = disk'.docs]_vars

\* The positions of the persisted docs whose metadata carries the id.
EntriesOf(dsk, id) == {i \in DOMAIN dsk.docs : dsk.docs[i].metadata.id = id}

\* C15: a build that succeeds leaves exactly one persisted doc with the id of
\* each active row, and the persisted index changes only in a build and in an
\* add.
C15_OnePerActiveRow ==
    [][/\ (response'.view = "build" /\ response'.status = "ok")
             => \A id \in DOMAIN catalog :
                   catalog[id].is_active => Cardinality(EntriesOf(disk', id)) = 1
       /\ disk' # disk => response'.view \in {"build", "add"}]_vars

\* C15 witness: a build has replaced a longer index, an add's, by one doc for
\* each of two rows, one active and one deactivated.
C15_Witness ==
    /\ response.view = "build"
    /\ response.status = "ok"
    /\ DOMAIN catalog = 1..2
    /\ catalog[1].is_active
    /\ ~catalog[2].is_active
    /\ disk.docs = <<Doc(1, "T"), Doc(2, "T")>>
    /\ vector_store.loaded
    /\ Len(vector_store.docs) = 3

\* ------------------------------------------------ the normalize runs (SpecNormalize)

\* The characters of the raw skill strings: a letter in both cases and a blank.
SkillChars == {"a", "A", " "}

\* The strings of at most MaxStrLen characters.
SkillStrings == UNION {[1..k -> SkillChars] : k \in 0..MaxStrLen}

\* The lists of at most MaxSkills such strings.
SkillLists == UNION {[1..k -> SkillStrings] : k \in 0..MaxSkills}

NormInit ==
    /\ catalog = <<>>
    /\ disk = [exists |-> FALSE, docs |-> <<>>]
    /\ vector_store = [loaded |-> FALSE, docs |-> <<>>]
    /\ parsed_skills = <<>>
    /\ vector_summary = <<>>
    /\ call = NoCall
    /\ response = NoResponse
    /\ load_failed = FALSE
    /\ \E skills \in SkillLists : norm = [NoNorm EXCEPT !.input = skills]
    /\ expected = NoExpected
    /\ SequentialInit

\* normalize(skills)
NormalizeOnce ==
    /\ norm.applied = 0
    /\ norm' = [norm EXCEPT !.first = normalize(norm.input), !.applied = 1]

\* normalize(normalize(skills))
NormalizeTwice ==
    /\ norm.applied = 1
    /\ norm' = [norm EXCEPT !.second = normalize(norm.first), !.applied = 2]

Requests == <<catalog, disk, vector_store, parsed_skills, vector_summary, call,
              response, load_failed, expected, files, pc, local, loads>>

NormNext ==
    \/ NormalizeOnce /\ UNCHANGED Requests
    \/ NormalizeTwice /\ UNCHANGED Requests

SpecNormalize == NormInit /\ [][NormNext]_vars

\* The string is empty or all whitespace.
IsBlank(str) == \A i \in 1..Len(str) : str[i] = Space

\* C11: normalize applied to its own result returns that result, and no
\* entry of a result of normalize is empty or whitespace only.
C11_NormalizeIdempotent ==
    /\ norm.applied >= 1 => \A i \in 1..Len(norm.first) : ~IsBlank(norm.first[i])
    /\ norm.applied = 2 =>
          /\ norm.second = norm.first
          /\ \A i \in 1..Len(norm.second) : ~IsBlank(norm.second[i])

\* C11 witness: normalize has been applied twice to a list with a blank entry
\* and an entry in upper case with a blank before it; one entry is left.
C11_Witness ==
    /\ norm.applied = 2
    /\ norm.input = << <<" ">>, <<" ", "A">> >>
    /\ norm.first = << <<"a">> >>

\* ------------------------------------------- the concurrent runs (SpecConcurrent)

\* The service is one object of the process (services.py:285), shared by its
\* threads.  Two request threads in find_matching_internships, a thread in
\* add_internships_to_vector_store, and the build script in a process of its
\* own.  Nothing in the code orders their steps: there is no lock around the
\* handle or the files.  save_local writes index.faiss and then index.pkl,
\* load_local reads them in that order, and rmtree removes them one by one.
Readers == {"r1", "r2"}
Adder == "adder"
Builder == "builder"
ServiceThreads == Readers \cup {Adder}
Processes == ServiceThreads \cup {Builder}

NoLocals == [seen |-> "none", faiss |-> <<>>, pkl |-> <<>>, docs |-> <<>>]

File(docs) == [exists |-> TRUE, docs |-> docs]

\* The index a build of an earlier, one-row catalog has left.
EarlierIndex == <<Doc(1, "T")>>

ConcurrentInit ==
    /\ catalog = TwoRows
    /\ disk = [exists |-> FALSE, docs |-> <<>>]
    /\ vector_store = [loaded |-> FALSE, docs |-> <<>>]
    /\ parsed_skills = <<>>
    /\ vector_summary = <<>>
    /\ call = NoCall
    /\ response = NoResponse
    /\ load_failed = FALSE
    /\ norm = NoNorm
    /\ \/ /\ files = NoFiles
          /\ expected = NoExpected
       \/ /\ files = [faiss |-> File(EarlierIndex), pkl |-> File(EarlierIndex)]
          /\ expected = [built |-> TRUE, docs |-> EarlierIndex]
    /\ pc = [p \in Processes |-> "start"]
    /\ local = [p \in Processes |-> NoLocals]
    /\ loads = 0

Sequential == <<catalog, disk, parsed_skills, vector_summary, call, response, load_failed, norm>>

\* Where a thread goes on when load_or_create_vector_store has returned.
AfterLoad(p) == IF p = Adder THEN "add_documents" ELSE "query"

\* Line 161: if self.vector_store: return self.vector_store
CheckHandle(p) ==
    /\ pc[p] = "start"
    /\ pc' = [pc EXCEPT ![p] = IF vector_store.loaded THEN AfterLoad(p) ELSE "exists"]
    /\ UNCHANGED <<vector_store, files, local, loads, expected>>

\* Lines 164-168: raise RuntimeError unless index.faiss exists.
CheckExists(p) ==
    /\ pc[p] = "exists"
    /\ IF files.faiss.exists
       THEN /\ pc' = [pc EXCEPT ![p] = "read_faiss"]
            /\ UNCHANGED local
       ELSE /\ pc' = [pc EXCEPT ![p] = "raised"]
            /\ local' = [local EXCEPT ![p].seen = "missing"]
    /\ UNCHANGED <<vector_store, files, loads, expected>>

\* Line 170, FAISS.load_local begins: it reads index.faiss.
ReadFaiss(p) ==
    /\ pc[p] = "read_faiss"
    /\ loads' = loads + 1
    /\ IF files.faiss.exists
       THEN /\ pc' = [pc EXCEPT ![p] = "read_pkl"]
            /\ local' = [local EXCEPT ![p].faiss = files.faiss.docs]
       ELSE /\ pc' = [pc EXCEPT ![p] = "raised"]
            /\ local' = [local EXCEPT ![p].seen = "missing"]
    /\ UNCHANGED <<vector_store, files, expected>>

\* FAISS.load_local goes on: it reads index.pkl.
ReadPkl(p) ==
    /\ pc[p] = "read_pkl"
    /\ IF files.pkl.exists
       THEN /\ pc' = [pc EXCEPT ![p] = "assign"]
            /\ local' = [local EXCEPT ![p].pkl = files.pkl.docs]
       ELSE /\ pc' = [pc EXCEPT ![p] = "raised"]
            /\ local' = [local EXCEPT ![p].seen = "partial"]
    /\ UNCHANGED <<vector_store, files, loads, expected>>

\* Line 170, the assignment: self.vector_store = the index read.  An index
\* whose two files come from different saves is torn.
AssignHandle(p) ==
    /\ pc[p] = "assign"
    /\ vector_store' = [loaded |-> TRUE, docs |-> local[p].pkl]
    /\ local' = [local EXCEPT ![p].seen = IF local[p].faiss # local[p].pkl
                                          THEN "torn" ELSE @]
    /\ pc' = [pc EXCEPT ![p] = AfterLoad(p)]
    /\ UNCHANGED <<files, loads, expected>>

\* Line 229: the request thread searches self.vector_store.
Query(p) ==
    /\ p \in Readers
    /\ pc[p] = "query"
    /\ local' = [local EXCEPT ![p].docs = vector_store.docs,
                              ![p].seen = IF @ = "torn" THEN "torn"
                                          ELSE IF vector_store.loaded THEN "index"
                                          ELSE "unset"]
    /\ pc' = [pc EXCEPT ![p] = "done"]
    /\ UNCHANGED <<vector_store, files, loads, expected>>

\* Line 209: self.vector_store.add_documents(documents), one internship.
AddDocuments ==
    /\ pc[Adder] = "add_documents"
    /\ \E id \in DOMAIN catalog :
          /\ vector_store' = [vector_store EXCEPT !.docs = @ \o <<Doc(id, catalog[id].title)>>]
          /\ local' = [local EXCEPT ![Adder].docs = <<Doc(id, catalog[id].title)>>]
    /\ pc' = [pc EXCEPT ![Adder] = "save_faiss"]
    /\ UNCHANGED <<files, loads, expected>>

\* The index a process is about to save: the service's handle, or the one the
\* build script made from its docs.
ToSave(p) == IF p = Adder THEN vector_store.docs ELSE local[p].docs

\* save_local, first file (line 210, and line 77 of the build script).
SaveFaiss(p) ==
    /\ p \in {Adder, Builder}
    /\ pc[p] = "save_faiss"
    /\ files' = [files EXCEPT !.faiss = File(ToSave(p))]
    /\ pc' = [pc EXCEPT ![p] = "save_pkl"]
    /\ UNCHANGED <<vector_store, local, loads, expected>>

\* save_local, second file.
SavePkl(p) ==
    /\ p \in {Adder, Builder}
    /\ pc[p] = "save_pkl"
    /\ files' = [files EXCEPT !.pkl = File(ToSave(p))]
    /\ pc' = [pc EXCEPT ![p] = "done"]
    /\ expected' = IF p = Builder THEN [built |-> TRUE, docs |-> local[p].docs]
                   ELSE [expected EXCEPT !.docs = @ \o local[p].docs]
    /\ UNCHANGED <<vector_store, local, loads>>

\* Lines 31-69 of the build script: the docs of every row, exit(1) if none.
BuildStart ==
    /\ pc[Builder] = "start"
    /\ local' = [local EXCEPT ![Builder].docs = BuildDocs(catalog, 1)]
    /\ pc' = [pc EXCEPT ![Builder] = IF BuildDocs(catalog, 1) = <<>> THEN "exit1" ELSE "rmtree"]
    /\ UNCHANGED <<vector_store, files, loads, expected>>

\* Lines 72-74 of the build script: shutil.rmtree removes the files of the old
\* index one after the other, in the order the directory lists them.
Rmtree ==
    /\ pc[Builder] = "rmtree"
    /\ \/ /\ files.faiss.exists
          /\ files' = [files EXCEPT !.faiss = NoFile]
          /\ UNCHANGED pc
       \/ /\ files.pkl.exists
          /\ files' = [files EXCEPT !.pkl = NoFile]
          /\ UNCHANGED pc
       \/ /\ ~files.faiss.exists /\ ~files.pkl.exists
          /\ pc' = [pc EXCEPT ![Builder] = "embed"]
          /\ UNCHANGED files
    /\ UNCHANGED <<vector_store, local, loads, expected>>

\* Line 76 of the build script: FAISS.from_documents embeds the docs.
Embed ==
    /\ pc[Builder] = "embed"
    /\ pc' = [pc EXCEPT ![Builder] = "save_faiss"]
    /\ UNCHANGED <<vector_store, files, local, loads, expected>>

ConcurrentNext ==
    \/ \E p \in ServiceThreads : CheckHandle(p) /\ UNCHANGED Sequential
    \/ \E p \in ServiceThreads : CheckExists(p) /\ UNCHANGED Sequential
    \/ \E p \in ServiceThreads : ReadFaiss(p) /\ UNCHANGED Sequential
    \/ \E p \in ServiceThreads : ReadPkl(p) /\ UNCHANGED Sequential
    \/ \E p \in ServiceThreads : AssignHandle(p) /\ UNCHANGED Sequential
    \/ \E p \in Readers : Query(p) /\ UNCHANGED Sequential
    \/ AddDocuments /\ UNCHANGED Sequential
    \/ \E p \in {Adder, Builder} : SaveFaiss(p) /\ UNCHANGED Sequential
    \/ \E p \in {Adder, Builder} : SavePkl(p) /\ UNCHANGED Sequential
    \/ BuildStart /\ UNCHANGED Sequential
    \/ Rmtree /\ UNCHANGED Sequential
    \/ Embed /\ UNCHANGED Sequential

SpecConcurrent == ConcurrentInit /\ [][ConcurrentNext]_vars

\* C12 as claimed: the service runs FAISS.load_local at most once, and a
\* request thread that searches finds the handle set.
C12_LoadedOnceAsClaimed ==
    /\ loads <= 1
    /\ \A p \in Readers : local[p].seen # "unset"

\* C13 as claimed: once an index has been built, no request thread finds the
\* index missing, partially written or torn between two saves.
C13_NoMidRebuildAsClaimed ==
    expected.built =>
        \A p \in Readers : local[p].seen \notin {"missing", "partial", "torn"}

====
